---- MODULE Spec2Model ----
(***************************************************************************)
(* A model of scripts/update_scotus.py: the daily updater that reads       *)
(* cases.json, asks a remote text service for an updated document,         *)
(* strips code fences from the answer, parses and validates it, compares   *)
(* it with the stored document, writes the file and logs what changed.     *)
(*                                                                         *)
(* Texts are sequences of one-character strings.  In the run model the     *)
(* character "J" stands for the JSON body of the answer, whose parsed      *)
(* value is carried beside the text; every other character is itself.      *)
(***************************************************************************)
EXTENDS Integers, Sequences, FiniteSets, TLC

VARIABLES
    stored,        \* the content of cases.json (CASES_PATH)
    today,         \* date.today().isoformat() during the current run
    pc,            \* position of the process
    current_data,  \* update_cases: current_data
    nextId,        \* build_user_prompt: the id put into the prompt (0: no prompt built)
    raw,           \* update_cases: raw, after the fence stripping
    body,          \* the value the "J" of raw parses to
    updated_data,  \* update_cases: updated_data
    out,           \* lines printed to stdout, in order
    err,           \* kinds of the lines printed to stderr, in order
    reads,         \* reads of cases.json in this run
    calls,         \* remote calls in this run
    writes,        \* writes of cases.json in this run
    result,        \* what update_cases did: "none", "true", "false", "raised"
    exitCode,      \* the process exit code (-1: still running)
    text,          \* normalizer model: the input text
    once,          \* normalizer model: the normalizer applied to text
    twice,         \* normalizer model: the normalizer applied to once
    npc            \* normalizer / prompt model: position

vars == <<stored, today, pc, current_data, nextId, raw, body, updated_data, out,
          err, reads, calls, writes, result, exitCode, text, once, twice, npc>>

runVars == <<stored, today, pc, current_data, nextId, raw, body, updated_data, out,
             err, reads, calls, writes, result, exitCode>>

normVars == <<text, once, twice, npc>>

----------------------------------------------------------------------------
(* Bounds *)

\* longest list of case records in a document
MaxCases == 2
\* longest text given to the normalizer model
MaxTextLen == 7
\* largest case id in the prompt model
MaxPromptId == 7
\* longest case list in the prompt model
MaxPromptCases == 3

----------------------------------------------------------------------------
(* Texts and the response normalizer (update_cases, lines 78-85) *)

\* The backtick, which the string syntax cannot hold, is written as an apostrophe.
Tick == "'"

Whitespace == {" ", "\n"}

\* str.strip()
Strip(s) ==
    LET keep == {i \in 1..Len(s) : s[i] \notin Whitespace}
    IN  IF keep = {} THEN <<>>
        ELSE LET lo == CHOOSE i \in keep : \A j \in keep : i <= j
                 hi == CHOOSE i \in keep : \A j \in keep : j <= i
             IN  SubSeq(s, lo, hi)

\* raw.startswith(fence), the fence being three backticks
StartsWithFence(s) ==
    Len(s) >= 3 /\ s[1] = Tick /\ s[2] = Tick /\ s[3] = Tick

\* raw.endswith(fence)
EndsWithFence(s) ==
    Len(s) >= 3 /\ s[Len(s)] = Tick /\ s[Len(s) - 1] = Tick /\ s[Len(s) - 2] = Tick

HasNewline(s) == \E i \in 1..Len(s) : s[i] = "\n"

\* raw.split("\n", 1)[1], defined when s holds a newline
AfterFirstLine(s) ==
    LET k == CHOOSE i \in 1..Len(s) : s[i] = "\n" /\ \A j \in 1..(i - 1) : s[j] # "\n"
    IN  SubSeq(s, k + 1, Len(s))

\* raw.rsplit(fence, 1)[0], for s that ends with the fence
BeforeLastFence(s) == SubSeq(s, 1, Len(s) - 3)

\* Lines 78-85.  ok = FALSE is the IndexError of split(...)[1] on a text that
\* opens with a fence and holds no newline.
Normalizer(s) ==
    LET a == Strip(s)
    IN  IF StartsWithFence(a) /\ ~HasNewline(a)
        THEN [ok |-> FALSE, text |-> <<>>]
        ELSE LET b == IF StartsWithFence(a) THEN AfterFirstLine(a) ELSE a
                 c == IF EndsWithFence(b) THEN BeforeLastFence(b) ELSE b
             IN  [ok |-> TRUE, text |-> Strip(c)]

----------------------------------------------------------------------------
(* Documents *)

Absent == "absent"

Dates == {"2026-01-01", "2026-01-02"}

Terms == {"OCT 2025", "OCT 2026"}

\* The 12 fields update_cases requires of every case record (lines 100-101)
RequiredFields ==
    {"id", "name", "docket", "status", "statusDetail", "category", "urgency",
     "question", "background", "firstOrder", "secondOrder", "sources"}

CaseName(id) ==
    IF id = 1 THEN "Trump v. Slaughter"
    ELSE IF id = 2 THEN "Trump v. Cook" ELSE "Learning Resources v. Trump"

\* A case record.  hashable = FALSE: the "id" is a JSON array (a Python list),
\* which cannot key a dict and cannot be added to 1.  missing: the required
\* fields the record lacks.  statusDetail stands for every field other than
\* id, name and status.
Case(id, status, detail) ==
    [id |-> id, hashable |-> TRUE, name |-> CaseName(id), status |-> status,
     statusDetail |-> detail, missing |-> {}]

CaseValues ==
    {Case(1, "Argued", "argued in December"),
     Case(1, "Decided", "argued in December"),
     Case(1, "Argued", "decision expected by June"),
     Case(2, "Argued", "argued in December")}

UnhashableCase == [Case(1, "Argued", "argued in December") EXCEPT !.hashable = FALSE]

IncompleteCases ==
    {[Case(1, "Argued", "argued in December") EXCEPT !.missing = {"sources"}],
     [Case(2, "Argued", "argued in December") EXCEPT !.missing = {"status", "urgency"}]}

SeqsUpTo(S, n) == UNION {[1..k -> S] : k \in 0..n}

CaseLists == SeqsUpTo(CaseValues, MaxCases)

\* A parsed JSON value.  kind "document": an object whose "cases" is a list;
\* "noCases": an object without "cases"; "casesNotList": an object whose
\* "cases" is not a list; "array": a JSON array; "scalar": a number, true,
\* false or null; "none": no value.
Doc(lu, term, cases) ==
    [kind |-> "document", lastUpdated |-> lu, term |-> term, cases |-> cases]

Other(kind) == [kind |-> kind, lastUpdated |-> Absent, term |-> Absent, cases |-> <<>>]

NoDoc == Other("none")

ValidDocs == {Doc(lu, t, cs) : lu \in Dates \cup {Absent}, t \in Terms, cs \in CaseLists}

Ids(cases) == {cases[i].id : i \in 1..Len(cases)}

UniqueIds(cases) ==
    \A i, j \in 1..Len(cases) : cases[i].id = cases[j].id => i = j

\* Lists that hold a record the validator or the change log stumbles on
OddLists(bad) ==
    {<<bad>>} \cup {<<c, bad>> : c \in {Case(2, "Argued", "argued in December")}}
              \cup {<<bad, c>> : c \in {Case(2, "Argued", "argued in December")}}

\* The values a response body can parse to
Bodies ==
    ValidDocs
    \cup {Doc("2026-01-02", "OCT 2025", cs) : cs \in OddLists(UnhashableCase)}
    \cup {Doc("2026-01-02", "OCT 2025", cs) :
            cs \in UNION {OddLists(b) : b \in IncompleteCases}}
    \cup {Other(k) : k \in {"noCases", "casesNotList", "array", "scalar"}}

\* Response texts around a JSON body "J": bare, padded, fenced with and without
\* a language tag, and fenced with the closing fence on the body's line
BodyTexts ==
    {<<"J">>,
     <<" ", "J", "\n">>,
     <<Tick, Tick, Tick, "j", "\n", "J", "\n", Tick, Tick, Tick>>,
     <<Tick, Tick, Tick, "\n", "J", Tick, Tick, Tick, "\n">>}

\* Response texts that are not JSON after the stripping, or on which the
\* stripping raises
JunkTexts ==
    {<<>>,
     <<"x">>,
     <<"J", "x">>,
     <<Tick, Tick, Tick, "J", Tick, Tick, Tick>>,
     <<Tick, Tick, Tick, "\n", Tick, Tick, Tick, "\n", "J">>}

ResponseTexts == BodyTexts \cup JunkTexts

----------------------------------------------------------------------------
(* build_user_prompt (lines 30-62): the next available id, line 45 *)

Max(S) == CHOOSE x \in S : \A y \in S : y <= x

\* max(c['id'] for c in cases) + 1 raises TypeError when an id is a list
PromptRaises(data) == \E i \in 1..Len(data.cases) : ~data.cases[i].hashable

\* A next id that counts the records instead of taking the largest id
NextId_CountPlusOne(data) == Len(data.cases) + 1

\* max(c['id'] for c in current_data['cases']) + 1 if current_data['cases'] else 1
NextId(data) ==
    IF data.cases # <<>> THEN Max(Ids(data.cases)) + 1 ELSE 1

----------------------------------------------------------------------------
(* update_cases (lines 65-133) and the entry point (lines 136-142) *)

Line(kind, name, old, new, n) ==
    [kind |-> kind, name |-> name, old |-> old, new |-> new, n |-> n]

\* sys.exit(0 if success else 1); an uncaught exception ends the process with 1
ExitCode(res) == IF res = "true" THEN 0 ELSE 1

\* Lines 87-92: json.loads(raw) succeeds exactly on the body alone
IsJson(t) == t = <<"J">>

\* Line 102, for one record: the required fields it lacks
MissingFields(case) == {f \in RequiredFields : f \in case.missing}

\* A validator that looks at the first record only
Validate_FirstRecordOnly(data) ==
    IF data.kind = "scalar" THEN "raised"
    ELSE IF data.kind # "document" THEN "shape"
    ELSE IF data.cases # <<>> /\ MissingFields(data.cases[1]) # {}
         THEN "shape"
         ELSE "ok"

\* Lines 94-105, on a parsed value: "ok", "shape" (an error is printed and
\* False returned) or "raised" ("cases" not in a number raises TypeError)
Validate(data) ==
    IF data.kind = "scalar" THEN "raised"
    ELSE IF data.kind # "document" THEN "shape"
    ELSE IF \E i \in 1..Len(data.cases) : MissingFields(data.cases[i]) # {}
         THEN "shape"
         ELSE "ok"

\* A comparison that forgets to leave "lastUpdated" out
CompareDump_WithDate(data) ==
    <<"cases", data.cases, "lastUpdated", data.lastUpdated, "term", data.term>>

\* Lines 108-109 and the json.dumps(..., sort_keys=True) of line 111: the
\* document without "lastUpdated", its keys in sorted order
CompareDump(data) == <<"cases", data.cases, "term", data.term>>

\* Line 111: nothing but "lastUpdated" differs
Unchanged(current, updated) == CompareDump(current) = CompareDump(updated)

\* A write that stamps today's date on the new document too
NewContent_RefreshesDate(current, updated, day) ==
    IF Unchanged(current, updated)
    THEN [current EXCEPT !.lastUpdated = day]
    ELSE [updated EXCEPT !.lastUpdated = day]

\* Lines 111-119: the document written to cases.json.  Equal documents: the
\* old one with today's date (lines 114-115); otherwise the new one as parsed
\* (line 119).
NewContent(current, updated, day) ==
    IF Unchanged(current, updated)
    THEN [current EXCEPT !.lastUpdated = day]
    ELSE updated

\* Line 123: old_ids = {c["id"]: c for c in cases}; a later record with the
\* same id replaces an earlier one
OldIds(cases) ==
    [k \in Ids(cases) |->
        cases[Max({i \in 1..Len(cases) : cases[i].id = k})]]

\* A change log that tests for any difference before it tests the status
CaseLines_UpdatedFirst(old_ids, case) ==
    IF case.id \notin DOMAIN old_ids
    THEN <<Line("NEW", case.name, "", "", 0)>>
    ELSE LET old == old_ids[case.id]
         IN  IF old # case
             THEN <<Line("UPDATED", case.name, "", "", 0)>>
             ELSE IF old.status # case.status
                  THEN <<Line("STATUS CHANGE", case.name, old.status, case.status, 0)>>
                  ELSE <<>>

\* Lines 125-131, for one candidate record: the lines it prints
CaseLines(old_ids, case) ==
    IF case.id \notin DOMAIN old_ids
    THEN <<Line("NEW", case.name, "", "", 0)>>
    ELSE LET old == old_ids[case.id]
         IN  IF old.status # case.status
             THEN <<Line("STATUS CHANGE", case.name, old.status, case.status, 0)>>
             ELSE IF old # case
                  THEN <<Line("UPDATED", case.name, "", "", 0)>>
                  ELSE <<>>

\* Lines 124-131 from record i on: the lines printed, and whether the loop
\* raised (old_ids.get of an unhashable id is a TypeError)
RECURSIVE LogFrom(_, _, _)
LogFrom(old_ids, cases, i) ==
    IF i > Len(cases) THEN [lines |-> <<>>, raised |-> FALSE]
    ELSE IF ~cases[i].hashable THEN [lines |-> <<>>, raised |-> TRUE]
    ELSE LET rest == LogFrom(old_ids, cases, i + 1)
         IN  [lines |-> CaseLines(old_ids, cases[i]) \o rest.lines,
              raised |-> rest.raised]

\* Lines 122-131
ChangeLog(old, new) ==
    IF \E i \in 1..Len(old.cases) : ~old.cases[i].hashable
    THEN [lines |-> <<>>, raised |-> TRUE]
    ELSE LogFrom(OldIds(old.cases), new.cases, 1)

Idle ==
    /\ current_data = NoDoc
    /\ nextId = 0
    /\ raw = <<>>
    /\ body = NoDoc
    /\ updated_data = NoDoc
    /\ out = <<>>
    /\ err = <<>>
    /\ reads = 0
    /\ calls = 0
    /\ writes = 0
    /\ result = "none"
    /\ exitCode = -1

NormIdle ==
    /\ text = <<>>
    /\ once = [ok |-> TRUE, text |-> <<>>]
    /\ twice = [ok |-> TRUE, text |-> <<>>]
    /\ npc = "off"

\* cases.json as the repository holds it: a document with every field, its
\* ids unique, dated by an earlier run
Init ==
    /\ stored \in {d \in ValidDocs : UniqueIds(d.cases) /\ d.lastUpdated # Absent}
    /\ today \in Dates
    /\ pc = "start"
    /\ Idle
    /\ NormIdle

\* Leaving update_cases with a return value or an exception, then line 142
Leave(res) ==
    /\ result' = res
    /\ exitCode' = ExitCode(res)
    /\ pc' = "exited"

\* Lines 136-141: the credential check
Main ==
    /\ pc = "start"
    /\ \E key \in BOOLEAN :
          IF key
          THEN /\ pc' = "load"
               /\ UNCHANGED <<err, result, exitCode>>
          ELSE /\ err' = Append(err, "ANTHROPIC_API_KEY not set")
               /\ exitCode' = 1
               /\ pc' = "exited"
               /\ UNCHANGED result
    /\ UNCHANGED <<stored, today, current_data, nextId, raw, body, updated_data,
                   out, reads, calls, writes>>
    /\ UNCHANGED normVars

\* Lines 67-69: read cases.json
Load ==
    /\ pc = "load"
    /\ current_data' = stored
    /\ reads' = reads + 1
    /\ pc' = "request"
    /\ UNCHANGED <<stored, today, nextId, raw, body, updated_data, out, err,
                   calls, writes, result, exitCode>>
    /\ UNCHANGED normVars

\* Lines 71-85: build the prompt, call the service, strip the fences
Request ==
    /\ pc = "request"
    /\ IF PromptRaises(current_data)
       THEN /\ Leave("raised")
            /\ UNCHANGED <<nextId, raw, body, calls>>
       ELSE /\ nextId' = NextId(current_data)
            /\ calls' = calls + 1
            /\ \E t \in ResponseTexts :
                  LET n == Normalizer(t)
                  IN  IF n.ok
                      THEN /\ raw' = n.text
                           /\ body' \in (IF IsJson(n.text) THEN Bodies ELSE {NoDoc})
                           /\ pc' = "parse"
                           /\ UNCHANGED <<result, exitCode>>
                      ELSE /\ Leave("raised")
                           /\ UNCHANGED <<raw, body>>
    /\ UNCHANGED <<stored, today, current_data, updated_data, out, err, reads, writes>>
    /\ UNCHANGED normVars

\* Lines 87-105: parse and validate
ParseValidate ==
    /\ pc = "parse"
    /\ IF ~IsJson(raw)
       THEN /\ err' = err \o <<"invalid JSON", "Raw response">>
            /\ Leave("false")
            /\ UNCHANGED updated_data
       ELSE /\ updated_data' = body
            /\ LET v == Validate(body)
               IN  IF v = "ok"
                   THEN /\ pc' = "reconcile"
                        /\ UNCHANGED <<err, result, exitCode>>
                   ELSE IF v = "shape"
                   THEN /\ err' = Append(err, IF body.kind = "document"
                                               THEN "missing fields"
                                               ELSE "missing 'cases' array")
                        /\ Leave("false")
                   ELSE /\ Leave("raised")
                        /\ UNCHANGED err
    /\ UNCHANGED <<stored, today, current_data, nextId, raw, body, out, reads,
                   calls, writes>>
    /\ UNCHANGED normVars

\* Lines 107-120: compare, then write
Reconcile ==
    /\ pc = "reconcile"
    /\ stored' = NewContent(current_data, updated_data, today)
    /\ writes' = writes + 1
    /\ IF Unchanged(current_data, updated_data)
       THEN /\ out' = Append(out, Line("NO CHANGES", "", "", "", 0))
            /\ current_data' = [current_data EXCEPT !.lastUpdated = today]
            /\ Leave("true")
       ELSE /\ out' = Append(out, Line("UPDATED COUNT", "", "", "", Len(updated_data.cases)))
            /\ pc' = "log"
            /\ UNCHANGED <<current_data, result, exitCode>>
    /\ UNCHANGED <<today, nextId, raw, body, updated_data, err, reads, calls>>
    /\ UNCHANGED normVars

\* Lines 122-133: log what changed
LogChanges ==
    /\ pc = "log"
    /\ LET log == ChangeLog(current_data, updated_data)
       IN  /\ out' = out \o log.lines
           /\ Leave(IF log.raised THEN "raised" ELSE "true")
    /\ UNCHANGED <<stored, today, current_data, nextId, raw, body, updated_data,
                   err, reads, calls, writes>>
    /\ UNCHANGED normVars

\* The scheduler starts the script again
NextRun ==
    /\ pc = "exited"
    /\ pc' = "start"
    /\ today' \in Dates
    /\ current_data' = NoDoc
    /\ nextId' = 0
    /\ raw' = <<>>
    /\ body' = NoDoc
    /\ updated_data' = NoDoc
    /\ out' = <<>>
    /\ err' = <<>>
    /\ reads' = 0
    /\ calls' = 0
    /\ writes' = 0
    /\ result' = "none"
    /\ exitCode' = -1
    /\ UNCHANGED stored
    /\ UNCHANGED normVars

Next == Main \/ Load \/ Request \/ ParseValidate \/ Reconcile \/ LogChanges \/ NextRun

Spec == Init /\ [][Next]_vars

----------------------------------------------------------------------------
(* The normalizer alone, applied to a text and to its own result *)

NormChars == {Tick, "\n", "x"}

Off ==
    /\ stored = Doc("2026-01-01", "OCT 2025", <<>>)
    /\ today = "2026-01-02"
    /\ pc = "off"

InitNorm ==
    /\ text \in SeqsUpTo(NormChars, MaxTextLen)
    /\ once = [ok |-> TRUE, text |-> <<>>]
    /\ twice = [ok |-> TRUE, text |-> <<>>]
    /\ npc = "input"
    /\ Off
    /\ Idle

NormalizeOnce ==
    /\ npc = "input"
    /\ once' = Normalizer(text)
    /\ npc' = "once"
    /\ UNCHANGED <<text, twice>>
    /\ UNCHANGED runVars

NormalizeTwice ==
    /\ npc = "once"
    /\ once.ok
    /\ twice' = Normalizer(once.text)
    /\ npc' = "twice"
    /\ UNCHANGED <<text, once>>
    /\ UNCHANGED runVars

NextNorm == NormalizeOnce \/ NormalizeTwice

SpecNorm == InitNorm /\ [][NextNorm]_vars

----------------------------------------------------------------------------
(* build_user_prompt alone, on documents with larger ids *)

PromptCases ==
    {Case(i, "Argued", "argued in December") : i \in 1..MaxPromptId}
    \cup {UnhashableCase}

InitPrompt ==
    /\ current_data \in
          {Doc("2026-01-01", "OCT 2025", cs) : cs \in SeqsUpTo(PromptCases, MaxPromptCases)}
    /\ nextId = 0
    /\ raw = <<>>
    /\ body = NoDoc
    /\ updated_data = NoDoc
    /\ out = <<>>
    /\ err = <<>>
    /\ reads = 0
    /\ calls = 0
    /\ writes = 0
    /\ result = "none"
    /\ exitCode = -1
    /\ Off
    /\ text = <<>>
    /\ once = [ok |-> TRUE, text |-> <<>>]
    /\ twice = [ok |-> TRUE, text |-> <<>>]
    /\ npc = "prompt"

BuildPrompt ==
    /\ npc = "prompt"
    /\ IF PromptRaises(current_data)
       THEN /\ npc' = "raised"
            /\ UNCHANGED nextId
       ELSE /\ nextId' = NextId(current_data)
            /\ npc' = "built"
    /\ UNCHANGED <<stored, today, pc, current_data, raw, body, updated_data, out,
                   err, reads, calls, writes, result, exitCode, text, once, twice>>

NextPrompt == BuildPrompt

SpecPrompt == InitPrompt /\ [][NextPrompt]_vars

----------------------------------------------------------------------------
(* Properties *)

\* The response was taken as a document with every required field on every record
Accepted ==
    /\ IsJson(raw)
    /\ updated_data.kind = "document"
    /\ \A i \in 1..Len(updated_data.cases) :
          updated_data.cases[i].missing \cap RequiredFields = {}

\* The two documents differ in a field other than "lastUpdated"
Differ(a, b) == a.term # b.term \/ a.cases # b.cases

\* A response came back and is not a document of complete records
Rejected ==
    /\ calls = 1
    /\ pc \in {"parse", "reconcile", "log", "exited"}
    /\ \/ ~IsJson(raw)
       \/ body.kind \in {"noCases", "casesNotList", "array", "scalar"}
       \/ \E i \in 1..Len(body.cases) : body.cases[i].missing \cap RequiredFields # {}

\* C1: a response that is not valid JSON after the stripping, or has no
\* "cases" list, or holds a record that lacks a required field, makes
\* update_cases fail without a write: cases.json is what the run read.
C1_RejectedResponseNeverWritten ==
    Rejected =>
        /\ writes = 0
        /\ stored = current_data
        /\ pc \in {"parse", "exited"}
        /\ (pc = "exited" => result \in {"false", "raised"} /\ exitCode = 1)

C1_Witness ==
    /\ pc = "exited"
    /\ result = "false"
    /\ IsJson(raw)
    /\ Len(body.cases) = 2
    /\ body.cases[1].missing = {}
    /\ body.cases[2].missing # {}
    /\ stored.cases # body.cases
    /\ writes = 0

\* C2: cases.json is written at most once in a run, and only after validation
\* and reconciliation (the comparison and the whole change log) have ended
\* without failure; nothing fails after the file has been written.
C2_WriteOnlyAfterReconcile ==
    /\ writes <= 1
    /\ (writes = 1 => Accepted /\ pc = "exited" /\ result = "true")
    /\ (result = "raised" => writes = 0)

\* C3: after every run in which update_cases returned True, the stored
\* "lastUpdated" is today's date.
C3_LastUpdatedIsToday ==
    (pc = "exited" /\ result = "true") => stored.lastUpdated = today

\* C4: when the accepted document equals the old one on every field other than
\* "lastUpdated", the run prints the "no changes" notice and nothing else, and
\* cases.json holds the old document with "lastUpdated" set to today.
C4_NoChangeKeepsOldDocument ==
    (pc = "exited" /\ Accepted /\ ~Differ(current_data, updated_data)) =>
        /\ out = <<Line("NO CHANGES", "", "", "", 0)>>
        /\ result = "true"
        /\ stored.lastUpdated = today
        /\ stored.term = current_data.term
        /\ stored.cases = current_data.cases

C4_Witness ==
    /\ pc = "exited"
    /\ Accepted
    /\ ~Differ(current_data, updated_data)
    /\ Len(stored.cases) = 2
    /\ updated_data.lastUpdated \notin {today}
    /\ stored.lastUpdated = today
    /\ out = <<Line("NO CHANGES", "", "", "", 0)>>

\* C5: when the accepted document differs from the old one in a field other
\* than "lastUpdated", cases.json holds the new document as parsed, its own
\* "lastUpdated" included, and no old record whose id the new document lacks.
C5_ChangeWritesCandidateVerbatim ==
    (pc \in {"log", "exited"} /\ Accepted /\ Differ(current_data, updated_data)) =>
        /\ stored = updated_data
        /\ \A i \in 1..Len(current_data.cases) :
              current_data.cases[i].id \notin Ids(updated_data.cases)
                  => current_data.cases[i].id \notin Ids(stored.cases)

C5_Witness ==
    /\ pc = "exited"
    /\ Accepted
    /\ Differ(current_data, updated_data)
    /\ updated_data.lastUpdated = Absent
    /\ current_data.lastUpdated # Absent
    /\ \E i \in 1..Len(current_data.cases) :
          current_data.cases[i].id \notin Ids(updated_data.cases)
    /\ updated_data.cases # <<>>
    /\ stored = updated_data

\* The line the precedence of C6 gives a new record c matched with the old record o
ClaimedLine(o, c) ==
    IF o.status # c.status
    THEN <<Line("STATUS CHANGE", c.name, o.status, c.status, 0)>>
    ELSE IF o # c THEN <<Line("UPDATED", c.name, "", "", 0)>> ELSE <<>>

\* The lines C6 allows for the new record c: "new" when no old record has its
\* id, otherwise the line for an old record with that id
ClaimedLines(old, c) ==
    IF \A j \in 1..Len(old) : old[j].id # c.id
    THEN {<<Line("NEW", c.name, "", "", 0)>>}
    ELSE {ClaimedLine(old[j], c) : j \in {k \in 1..Len(old) : old[k].id = c.id}}

\* The logs C6 allows for the first n new records, in their order
RECURSIVE ClaimedLogs(_, _, _)
ClaimedLogs(old, new, n) ==
    IF n = 0 THEN {<<>>}
    ELSE {p \o l : p \in ClaimedLogs(old, new, n - 1), l \in ClaimedLines(old, new[n])}

C7_NormalizerIdempotent ==
    /\ npc \in {"once", "twice"} => once.ok
    /\ npc = "twice" => twice.ok /\ twice.text = once.text

\* C8: the exit code is 0 exactly when cases.json was written, and 1 when the
\* credential is absent, the response is not JSON or validation fails; a run
\* without the credential reads nothing, calls nothing and writes nothing.
C8_ExitCodeZeroIffWritten ==
    pc = "exited" =>
        /\ exitCode \in {0, 1}
        /\ (exitCode = 0) <=> (writes = 1)
        /\ result = "false" => exitCode = 1
        /\ err = <<"ANTHROPIC_API_KEY not set">> =>
              exitCode = 1 /\ reads = 0 /\ calls = 0 /\ writes = 0

\* C9: the ids of the stored case records stay pairwise distinct.
C9_StoredIdsUnique == UniqueIds(stored.cases)

\* C10: the id put into the prompt is 1 for an empty case list, and otherwise
\* the largest id of the list plus 1, so it is above every id of the list.
C10_NextIdIsMaxPlusOne ==
    npc = "built" =>
        LET ids == Ids(current_data.cases)
        IN  /\ ids = {} => nextId = 1
            /\ ids # {} => (nextId - 1) \in ids
            /\ \A i \in ids : i < nextId

C10_Witness ==
    /\ npc = "built"
    /\ Len(current_data.cases) = 3
    /\ current_data.cases[1].id = 3
    /\ current_data.cases[2].id = 7
    /\ current_data.cases[3].id = 5
    /\ nextId = 8

====
